---------------------------- MODULE Spec2Model ----------------------------
(***************************************************************************)
(* Flight Search Relay (google-flights-mcp).                                *)
(*                                                                         *)
(* The repository holds four copies of the same Express server:            *)
(*   "server"    src/server.js                                             *)
(*   "part000a"  src/unnamed/part_000, lines 1-244                          *)
(*   "part000b"  src/unnamed/part_000, lines 245-386                        *)
(*   "part001"   src/unnamed/part_001                                       *)
(* A process runs one of them (impl), with an environment (SERP_API_KEY,    *)
(* NODE_ENV).  Each POST /execute-tool request runs the handler up to its   *)
(* await, then the continuation sends the response.                        *)
(*                                                                         *)
(* JavaScript values are tagged records.  A string is a sequence of         *)
(* tokens (each token an indivisible piece of text), so that concatenation, *)
(* trim(), includes() and === are computed, not assumed.                    *)
(***************************************************************************)
EXTENDS Integers, Sequences, FiniteSets, TLC

VARIABLES impl, SERP_API_KEY, NODE_ENV, pc, body, result, query, calls,
          resp, sent, invoked, reply, health

vars == <<impl, SERP_API_KEY, NODE_ENV, pc, body, result, query, calls,
          resp, sent, invoked, reply, health>>

---------------------------------------------------------------------------
(* JavaScript values *)

Undef == [t |-> "undefined"]
Null == [t |-> "null"]
Bool(b) == [t |-> "boolean", v |-> b]
Num(n) == [t |-> "number", v |-> n]
Str(s) == [t |-> "string", v |-> s]
Obj(f) == [t |-> "object", v |-> f]
Arr(s) == [t |-> "array", v |-> s]

\* a one-token string literal
Lit(tok) == Str(<<tok>>)
EmptyStr == Str(<<>>)
EmptyObj == Obj(<<>>)

IsNullish(x) == x.t \in {"undefined", "null"}

\* ToBoolean: what `!x`, `x || y`, `x && y`, `x ? a : b` test
Truthy(x) ==
  CASE x.t = "undefined" -> FALSE
    [] x.t = "null" -> FALSE
    [] x.t = "boolean" -> x.v
    [] x.t = "number" -> x.v # 0
    [] x.t = "string" -> x.v # <<>>
    [] OTHER -> TRUE

\* a || b
Or(a, b) == IF Truthy(a) THEN a ELSE b

\* o.k on an object that is not null/undefined (an own property or undefined)
Get(o, k) ==
  IF o.t = "object" /\ k \in DOMAIN o.v THEN o.v[k] ELSE Undef

\* o?.k
OptGet(o, k) == IF IsNullish(o) THEN Undef ELSE Get(o, k)

\* a.length of an array
Length(a) == IF a.t = "array" THEN Len(a.v) ELSE 0

Digits == <<"0", "1", "2", "3", "4", "5", "6", "7", "8", "9">>

\* String(x), as a template literal or `'text' + x` converts x
JSString(x) ==
  CASE x.t = "undefined" -> <<"undefined">>
    [] x.t = "null" -> <<"null">>
    [] x.t = "boolean" -> IF x.v THEN <<"true">> ELSE <<"false">>
    [] x.t = "number" -> IF x.v \in 0..9 THEN <<Digits[x.v + 1]>> ELSE <<"number">>
    [] x.t = "string" -> x.v
    [] OTHER -> <<"[object Object]">>

IsSpace(tok) == tok \in {" ", "\t"}

RECURSIVE TrimStart(_)
TrimStart(s) ==
  IF s = <<>> THEN <<>>
  ELSE IF IsSpace(Head(s)) THEN TrimStart(Tail(s)) ELSE s

RECURSIVE TrimEnd(_)
TrimEnd(s) ==
  IF s = <<>> THEN <<>>
  ELSE IF IsSpace(s[Len(s)]) THEN TrimEnd(SubSeq(s, 1, Len(s) - 1)) ELSE s

\* String.prototype.trim on the tokens of a string
Trim(s) == TrimEnd(TrimStart(s))

\* String.prototype.includes on the tokens of two strings
Includes(s, sub) ==
  \E i \in 1..(Len(s) - Len(sub) + 1) : SubSeq(s, i, i + Len(sub) - 1) = sub


---------------------------------------------------------------------------
(* JSON.stringify as res.json applies it: a property whose value is        *)
(* undefined is dropped from an object, and undefined in an array is null  *)

RECURSIVE JSON(_)
JSON(x) ==
  CASE x.t = "object" ->
         Obj([k \in {j \in DOMAIN x.v : x.v[j].t # "undefined"} |-> JSON(x.v[k])])
    [] x.t = "array" ->
         Arr([i \in 1..Len(x.v) |->
                IF x.v[i].t = "undefined" THEN Null ELSE JSON(x.v[i])])
    [] OTHER -> x

Has(o, k) == o.t = "object" /\ k \in DOMAIN o.v

---------------------------------------------------------------------------
(* searchFlights of src/server.js: trip type and outbound query *)

NA == Lit("N/A")
Unknown == Lit("Unknown")

\* the thrown TypeError of a property read on null/undefined, or of a call of
\* something that is not a function
TypeError == Obj([message |-> Lit("TypeError"), response |-> Undef])

\* the && chain without the trim: return_date !== ''
isRoundTripUntrimmed(return_date) ==
  IF ~Truthy(return_date) THEN return_date
  ELSE IF return_date = Lit("null") THEN Bool(FALSE)
  ELSE Bool(return_date.v # <<>>)

\* server.js:136, the value of the && chain
isRoundTrip(return_date) ==
  IF ~Truthy(return_date) THEN return_date
  ELSE IF return_date = Lit("null") THEN Bool(FALSE)
  ELSE Bool(Trim(return_date.v) # <<>>)

\* server.js:136, return_date.trim is not a function
isRoundTripThrows(return_date) ==
  /\ Truthy(return_date)
  /\ return_date # Lit("null")
  /\ return_date.t # "string"

\* server.js:143-158
\* the query with return_date passed through whatever the trip type
searchParamsWithReturn(origin, destination, departure_date, return_date, key) ==
  LET rt == isRoundTrip(return_date)
  IN Obj([engine |-> Lit("google_flights"),
          departure_id |-> origin,
          arrival_id |-> destination,
          outbound_date |-> departure_date,
          type |-> IF Truthy(rt) THEN Lit("1") ELSE Lit("2"),
          currency |-> Lit("INR"),
          hl |-> Lit("en"),
          api_key |-> key,
          return_date |-> return_date])

searchParams(origin, destination, departure_date, return_date, key) ==
  LET rt == isRoundTrip(return_date)
      base == [engine |-> Lit("google_flights"),
               departure_id |-> origin,
               arrival_id |-> destination,
               outbound_date |-> departure_date,
               type |-> IF Truthy(rt) THEN Lit("1") ELSE Lit("2"),
               currency |-> Lit("INR"),
               hl |-> Lit("en"),
               api_key |-> key]
  IN Obj(IF Truthy(rt) THEN base @@ [return_date |-> return_date] ELSE base)

---------------------------------------------------------------------------
(* searchFlights of src/server.js: the response transform *)

Min(S) == CHOOSE i \in S : \A j \in S : i <= j

\* server.js:191-193, the callback of the outbound find
outboundMatch(leg, origin) ==
  LET dep == Get(leg, "departure_airport")
      name == OptGet(dep, "name")
  IN \/ OptGet(dep, "id") = origin
     \/ (name.t = "string" /\ origin.t = "string" /\ Includes(name.v, origin.v))

\* server.js:197-202, the callback of the return find (idx is 0-based)
returnMatch(leg, idx, origin, destination) ==
  /\ idx > 0
  /\ LET dep == Get(leg, "departure_airport")
         name == OptGet(dep, "name")
     IN \/ OptGet(dep, "id") = destination
        \/ OptGet(Get(leg, "arrival_airport"), "id") = origin
        \/ (name.t = "string" /\ destination.t = "string"
              /\ Includes(name.v, destination.v))

\* 1-based positions of the legs each find accepts
outboundHits(legs, origin) ==
  {i \in 1..Len(legs) : ~IsNullish(legs[i]) /\ outboundMatch(legs[i], origin)}

returnHits(legs, origin, destination) ==
  {i \in 1..Len(legs) :
     ~IsNullish(legs[i]) /\ returnMatch(legs[i], i - 1, origin, destination)}

\* the outbound leg found by the departure airport's code alone
outboundLegByCode(legs, origin) ==
  LET hits == {i \in 1..Len(legs) :
                 /\ ~IsNullish(legs[i])
                 /\ OptGet(Get(legs[i], "departure_airport"), "id") = origin}
  IN IF hits = {} THEN legs[1] ELSE legs[Min(hits)]

\* server.js:191-194 (and 284-287): find(...) || flight.flights[0]
outboundLeg(legs, origin) ==
  IF outboundHits(legs, origin) = {} THEN legs[1]
  ELSE legs[Min(outboundHits(legs, origin))]

\* the return leg found by the airport codes alone
returnLegByCode(legs, origin, destination) ==
  LET hits == {i \in 2..Len(legs) :
                 /\ ~IsNullish(legs[i])
                 /\ \/ OptGet(Get(legs[i], "departure_airport"), "id") = destination
                    \/ OptGet(Get(legs[i], "arrival_airport"), "id") = origin}
  IN IF hits = {} THEN legs[Len(legs)] ELSE legs[Min(hits)]

\* server.js:197-203 (and 290-296): find(...) || flight.flights[length - 1]
returnLeg(legs, origin, destination) ==
  IF returnHits(legs, origin, destination) = {} THEN legs[Len(legs)]
  ELSE legs[Min(returnHits(legs, origin, destination))]

\* the legs a find reads before it stops: a null leg among them throws
\* (leg.departure_airport of null); the return find does not read leg 0
outboundScan(legs, origin) ==
  IF outboundHits(legs, origin) = {} THEN 1..Len(legs)
  ELSE 1..Min(outboundHits(legs, origin))

returnScan(legs, origin, destination) ==
  IF returnHits(legs, origin, destination) = {} THEN 2..Len(legs)
  ELSE 2..Min(returnHits(legs, origin, destination))

\* the details of one leg with the duration passed through as it came
legDetailsRawDuration(leg, depDefault, arrDefault) ==
  Obj([departure_time |-> Or(OptGet(Get(leg, "departure_airport"), "time"), NA),
       arrival_time |-> Or(OptGet(Get(leg, "arrival_airport"), "time"), NA),
       departure_airport |-> Or(OptGet(Get(leg, "departure_airport"), "id"), depDefault),
       arrival_airport |-> Or(OptGet(Get(leg, "arrival_airport"), "id"), arrDefault),
       duration |-> Get(leg, "duration"),
       airline |-> Or(Get(leg, "airline"), Unknown),
       flight_number |-> Or(Get(leg, "flight_number"), NA)])

\* server.js:209-217, 220-228, 251-259: the details of one leg
legDetails(leg, depDefault, arrDefault) ==
  Obj([departure_time |-> Or(OptGet(Get(leg, "departure_airport"), "time"), NA),
       arrival_time |-> Or(OptGet(Get(leg, "arrival_airport"), "time"), NA),
       departure_airport |-> Or(OptGet(Get(leg, "departure_airport"), "id"), depDefault),
       arrival_airport |-> Or(OptGet(Get(leg, "arrival_airport"), "id"), arrDefault),
       duration |-> Or(Get(leg, "duration"), NA),
       airline |-> Or(Get(leg, "airline"), Unknown),
       flight_number |-> Or(Get(leg, "flight_number"), NA)])

\* server.js:186 (and 280): the round-trip branch is taken
roundTripBranch(flight, rt) ==
  Truthy(rt) /\ Length(Get(flight, "flights")) >= 2

\* every itinerary counted as one-way
stopsOneWay(flight, rt) == Length(Get(flight, "flights")) - 1

\* server.js:233 and 248 (323 and 334)
stops(flight, rt) ==
  IF roundTripBranch(flight, rt)
  THEN Length(Get(flight, "flights")) - 2
  ELSE Length(Get(flight, "flights")) - 1

\* server.js:182 (and 276)
price(flight) == Or(Get(flight, "price"), NA)

\* server.js:180-260 (and 274-346): the record of one itinerary
flightData(type, flight, rt, origin, destination) ==
  LET legs == Get(flight, "flights").v
      head == [type |-> Lit(type), price |-> price(flight), is_round_trip |-> rt]
  IN IF roundTripBranch(flight, rt)
     THEN LET out == outboundLeg(legs, origin)
              ret == returnLeg(legs, origin, destination)
          IN Obj(head @@
                 [outbound |-> legDetails(out, origin, destination),
                  return |-> legDetails(ret, destination, origin),
                  airline |-> Or(Get(out, "airline"), Unknown),
                  flight_number |-> Or(Get(out, "flight_number"), NA),
                  stops |-> Num(stops(flight, rt))])
     ELSE LET leg == legs[1]
          IN Obj(head @@
                 [airline |-> Or(Get(leg, "airline"), Unknown),
                  flight_number |-> Or(Get(leg, "flight_number"), NA),
                  departure_time |-> Or(OptGet(Get(leg, "departure_airport"), "time"), NA),
                  arrival_time |-> Or(OptGet(Get(leg, "arrival_airport"), "time"), NA),
                  duration |-> Or(Get(leg, "duration"), NA),
                  stops |-> Num(stops(flight, rt)),
                  outbound |-> legDetails(leg, origin, destination)])

\* server.js:177 (and 272): the itinerary is surfaced
surfaced(flight) ==
  Truthy(Get(flight, "flights")) /\ Length(Get(flight, "flights")) > 0

\* a property read on null inside the forEach callback
flightThrows(flight, rt, origin, destination) ==
  \/ IsNullish(flight)
  \/ /\ surfaced(flight)
     /\ LET legs == Get(flight, "flights").v
        IN IF roundTripBranch(flight, rt)
           THEN \/ \E i \in outboundScan(legs, origin) : IsNullish(legs[i])
                \/ IsNullish(outboundLeg(legs, origin))
                \/ \E i \in returnScan(legs, origin, destination) : IsNullish(legs[i])
                \/ IsNullish(returnLeg(legs, origin, destination))
           ELSE IsNullish(legs[1])

---------------------------------------------------------------------------
(* the one-way-only transform of unnamed/part_000 (both copies) and        *)
(* unnamed/part_001                                                        *)

\* part_000:161 and 180, part_000:328 and 348, part_001:187 and 221:
\* flight.flights && flight.flights[0]
simpleSurfaced(flight) ==
  LET fl == Get(flight, "flights")
  IN Truthy(fl) /\ Length(fl) > 0 /\ Truthy(fl.v[1])

\* the fields the three copies share (part_000:163-172)
simpleFields(type, flight) ==
  LET firstLeg == Get(flight, "flights").v[1]
  IN [type |-> Lit(type),
      airline |-> Or(Get(firstLeg, "airline"), Unknown),
      flight_number |-> Or(Get(firstLeg, "flight_number"), NA),
      departure_time |-> Or(OptGet(Get(firstLeg, "departure_airport"), "time"), NA),
      arrival_time |-> Or(OptGet(Get(firstLeg, "arrival_airport"), "time"), NA),
      duration |-> Or(Get(firstLeg, "duration"), NA),
      price |-> Or(Get(flight, "price"), NA),
      stops |-> Num(Length(Get(flight, "flights")) - 1)]

\* part_000:162-172 and 181-191 / part_000:329-340 and 349-359 /
\* part_001:188-202 and 222-235
simpleFlightData(variant, type, flight, origin, destination) ==
  LET firstLeg == Get(flight, "flights").v[1]
      carbon == OptGet(Get(flight, "carbon_emissions"), "this_flight")
      airports ==
        [departure_airport |-> Or(OptGet(Get(firstLeg, "departure_airport"), "id"), origin),
         arrival_airport |-> Or(OptGet(Get(firstLeg, "arrival_airport"), "id"), destination)]
  IN CASE variant = "part000a" -> Obj(simpleFields(type, flight))
       [] variant = "part000b" ->
            Obj(IF type = "best"
                THEN simpleFields(type, flight) @@ [carbon_emissions |-> Or(carbon, NA)]
                ELSE simpleFields(type, flight))
       [] OTHER ->
            Obj(IF type = "best"
                THEN simpleFields(type, flight) @@ airports
                       @@ [carbon_emissions |-> Or(carbon, Null)]
                ELSE simpleFields(type, flight) @@ airports)

---------------------------------------------------------------------------
(* the two lists of the provider's reply, all four copies *)

\* server.js:271, part_000:179 and 347, part_001:220: slice(0, 5)
OtherCap == 5

\* server.js:173: data.best_flights && data.best_flights.length > 0
bestList(data) ==
  LET l == Get(data, "best_flights")
  IN IF Truthy(l) /\ Length(l) > 0 THEN l.v ELSE <<>>

\* the other flights without the slice
otherListWhole(data) ==
  LET l == Get(data, "other_flights")
  IN IF Truthy(l) /\ Length(l) > 0 THEN l.v ELSE <<>>

\* server.js:268-271: data.other_flights.slice(0, 5)
otherList(data) ==
  LET l == Get(data, "other_flights")
  IN IF Truthy(l) /\ Length(l) > 0
     THEN SubSeq(l.v, 1, IF Len(l.v) < OtherCap THEN Len(l.v) ELSE OtherCap)
     ELSE <<>>

isSurfaced(variant, flight) ==
  IF variant = "server" THEN surfaced(flight) ELSE simpleSurfaced(flight)

record(variant, type, flight, rt, origin, destination) ==
  IF variant = "server"
  THEN flightData(type, flight, rt, origin, destination)
  ELSE simpleFlightData(variant, type, flight, origin, destination)

\* the forEach over one list: flights.push(...) for each surfaced itinerary
RECURSIVE parseList(_, _, _, _, _, _)
parseList(variant, type, list, rt, origin, destination) ==
  IF list = <<>> THEN <<>>
  ELSE (IF isSurfaced(variant, Head(list))
        THEN <<record(variant, type, Head(list), rt, origin, destination)>>
        ELSE <<>>)
       \o parseList(variant, type, Tail(list), rt, origin, destination)

\* the other list parsed ahead of the best list
parseFlightsOtherFirst(variant, data, rt, origin, destination) ==
  parseList(variant, "other", otherList(data), rt, origin, destination)
    \o parseList(variant, "best", bestList(data), rt, origin, destination)

\* server.js:170-351: flights after both lists are parsed
parseFlights(variant, data, rt, origin, destination) ==
  parseList(variant, "best", bestList(data), rt, origin, destination)
    \o parseList(variant, "other", otherList(data), rt, origin, destination)

\* an exception between the reply and the return (caught by the catch of
\* searchFlights): data is null, an itinerary is null, a leg read is null
parseThrows(variant, data, rt, origin, destination) ==
  \/ IsNullish(data)
  \/ \E i \in 1..Len(bestList(data)) :
       IF variant = "server"
       THEN flightThrows(bestList(data)[i], rt, origin, destination)
       ELSE IsNullish(bestList(data)[i])
  \/ \E i \in 1..Len(otherList(data)) :
       IF variant = "server"
       THEN flightThrows(otherList(data)[i], rt, origin, destination)
       ELSE IsNullish(otherList(data)[i])

---------------------------------------------------------------------------
(* searchFlights: the envelopes *)

validates(variant) == variant # "part000b"

\* server.js:116: !origin || !destination || !departure_date
missingRequired(params) ==
  \/ ~Truthy(Get(params, "origin"))
  \/ ~Truthy(Get(params, "destination"))
  \/ ~Truthy(Get(params, "departure_date"))

\* a check that tells only a missing key from a present one
configuredIfDefined(key) == ~IsNullish(key)

\* server.js:123: !SERP_API_KEY is false
configured(key) == Truthy(key)

\* server.js:117-120, part_001:137-141
validationError(variant, params) ==
  LET e == [success |-> Bool(FALSE),
            error |-> Lit("Missing required parameters: origin, destination, or departure_date")]
  IN Obj(IF variant = "part001" THEN e @@ [received |-> params] ELSE e)

\* server.js:125-129, part_000:294-298
configError(variant) ==
  Obj([success |-> Bool(FALSE),
       error |-> Lit("SERP_API_KEY not configured"),
       fallback_message |->
         IF variant = "part000b"
         THEN Lit("MCP server configuration error")
         ELSE Lit("MCP server configuration error - API key missing")])

\* `Unable to fetch flights for ${origin} to ${destination} on ${departure_date}. `
unableText(params) ==
  <<"Unable to fetch flights for ">> \o JSString(Get(params, "origin"))
    \o <<" to ">> \o JSString(Get(params, "destination"))
    \o <<" on ">> \o JSString(Get(params, "departure_date")) \o <<". ">>

\* a catch that returns a fixed text
failureFixedText(variant, params, error) ==
  Obj([success |-> Bool(FALSE),
       error |-> Get(error, "message"),
       fallback_message |-> Lit("Unable to fetch flights. Please try again.")])

\* server.js:378-383, part_000:212-216, part_000:375-379, part_001:283-288:
\* what the catch of searchFlights returns
failure(variant, params, error) ==
  LET message == Get(error, "message")
      data == OptGet(Get(error, "response"), "data")
      detail == Or(OptGet(data, "error"), message)
  IN CASE variant = "part000a" ->
            Obj([success |-> Bool(FALSE),
                 error |-> message,
                 fallback_message |->
                   Str(unableText(params) \o <<"Error: ">> \o JSString(message))])
       [] variant = "part000b" ->
            Obj([success |-> Bool(FALSE),
                 error |-> message,
                 fallback_message |->
                   Str(unableText(params)
                         \o <<"Please check airport codes and date format.">>)])
       [] OTHER ->
            Obj([success |-> Bool(FALSE),
                 error |-> message,
                 serp_error |-> Or(data, Null),
                 fallback_message |-> Str(unableText(params) \o JSString(detail))])

\* `${origin} to ${destination}`
route(params) ==
  Str(JSString(Get(params, "origin")) \o <<" to ">>
        \o JSString(Get(params, "destination")))

\* part_001:244-252
noFlights(params) ==
  Obj([success |-> Bool(FALSE),
       error |-> Lit("No flights found"),
       fallback_message |->
         Str(<<"No flights available for ">> \o JSString(Get(params, "origin"))
               \o <<" to ">> \o JSString(Get(params, "destination"))
               \o <<" on ">> \o JSString(Get(params, "departure_date"))),
       flights |-> Arr(<<>>),
       total_results |-> Num(0)])

\* server.js:356-365, part_000:198-205 and 364-371, part_001:256-263
success(variant, params, data, flights) ==
  LET e == [success |-> Bool(TRUE),
            route |-> route(params),
            date |-> Get(params, "departure_date"),
            flights |-> Arr(flights),
            total_results |-> Num(Len(flights)),
            price_insights |-> Or(Get(data, "price_insights"), Null)]
      rt == isRoundTrip(Get(params, "return_date"))
  IN Obj(IF variant = "server"
         THEN e @@ [return_date |-> Or(Get(params, "return_date"), Null),
                    trip_type |-> IF Truthy(rt) THEN Lit("round-trip")
                                  ELSE Lit("one-way")]
         ELSE e)

\* the trip type the transform works with: only server.js has one
tripFlag(variant, params) ==
  IF variant = "server" THEN isRoundTrip(Get(params, "return_date")) ELSE Bool(FALSE)

\* server.js:169-365: from the provider's reply to the returned envelope
\* an empty result is a failure in every copy
searchDoneStrict(variant, params, data) ==
  LET origin == Get(params, "origin")
      destination == Get(params, "destination")
      rt == tripFlag(variant, params)
      flights == parseFlights(variant, data, rt, origin, destination)
  IN IF parseThrows(variant, data, rt, origin, destination)
     THEN failure(variant, params, TypeError)
     ELSE IF Len(flights) = 0
     THEN noFlights(params)
     ELSE success(variant, params, data, flights)

searchDone(variant, params, data) ==
  LET origin == Get(params, "origin")
      destination == Get(params, "destination")
      rt == tripFlag(variant, params)
      flights == parseFlights(variant, data, rt, origin, destination)
  IN IF parseThrows(variant, data, rt, origin, destination)
     THEN failure(variant, params, TypeError)
     ELSE IF variant = "part001" /\ Len(flights) = 0
     THEN noFlights(params)
     ELSE success(variant, params, data, flights)

\* part_000:304-313: the query of the second copy; axios leaves out a
\* parameter that is undefined or null
plainParams(variant, params, key) ==
  LET base == [engine |-> Lit("google_flights"),
               departure_id |-> Get(params, "origin"),
               arrival_id |-> Get(params, "destination"),
               outbound_date |-> Get(params, "departure_date"),
               hl |-> Lit("en"),
               api_key |-> key]
  IN IF variant = "part000b"
     THEN Obj(base @@ [currency |-> Lit("USD"),
                       return_date |-> Or(Get(params, "return_date"), Undef)])
     ELSE Obj(base @@ [currency |-> Lit("INR"), type |-> Lit("2")])

\* what axios puts on the wire
sentParams(q) ==
  Obj([k \in {j \in DOMAIN q.v : ~IsNullish(q.v[j])} |-> q.v[k]])

\* searchFlights up to its await: it returns, throws, or calls the provider
\* (server.js:110-165)
searchFlights(variant, params, key) ==
  IF IsNullish(params)
    THEN [k |-> "throw", error |-> TypeError]
  ELSE IF validates(variant) /\ missingRequired(params)
    THEN [k |-> "return", value |-> validationError(variant, params)]
  ELSE IF ~configured(key)
    THEN [k |-> "return", value |-> configError(variant)]
  ELSE IF variant = "server" /\ isRoundTripThrows(Get(params, "return_date"))
    THEN [k |-> "return", value |-> failure(variant, params, TypeError)]
  ELSE [k |-> "call",
        query |-> sentParams(
          IF variant = "server"
          THEN searchParams(Get(params, "origin"), Get(params, "destination"),
                            Get(params, "departure_date"),
                            Get(params, "return_date"), key)
          ELSE plainParams(variant, params, key))]

---------------------------------------------------------------------------
(* the routes *)

Response(status, b) == [status |-> status, body |-> JSON(b)]

\* server.js:101-105, part_000:282-285: the catch of the handler
internalError(variant, env, error) ==
  LET e == [success |-> Bool(FALSE), error |-> Get(error, "message")]
      stack == Str(JSString(Get(error, "message")) \o <<"\n    at ">>)
  IN Response(500,
       Obj(IF variant = "part000b" THEN e
           ELSE e @@ [stack |-> IF env = Lit("development") THEN stack ELSE Undef]))

\* the unknown-tool answer without the tool's name
unknownToolUnnamed(variant, tool) ==
  Response(400,
    Obj([success |-> Bool(FALSE),
         error |-> Lit("Unknown tool"),
         available_tools |-> Arr(<<Lit("search_flights")>>)]))

\* server.js:93-97, part_000:275-278
unknownTool(variant, tool) ==
  LET e == [success |-> Bool(FALSE),
            error |-> Str(<<"Unknown tool: ">> \o JSString(tool))]
  IN Response(400,
       Obj(IF variant = "part000b" THEN e
           ELSE e @@ [available_tools |-> Arr(<<Lit("search_flights")>>)]))

\* server.js:73-77 and 81-85
missing(what, b) ==
  Response(400,
    Obj([success |-> Bool(FALSE),
         error |-> Str(<<"Missing \"", what, "\" parameter">>),
         received |-> b]))

\* the handler with the tool's name looked at before the parameters
executeToolNameFirst(variant, env, b) ==
  LET tool == Get(b, "tool")
      parameters == Get(b, "parameters")
  IN IF IsNullish(b)
       THEN [k |-> "respond", response |-> internalError(variant, env, TypeError)]
     ELSE IF validates(variant) /\ ~Truthy(tool)
       THEN [k |-> "respond", response |-> missing("tool", b)]
     ELSE IF tool # Lit("search_flights")
       THEN [k |-> "respond", response |-> unknownTool(variant, tool)]
     ELSE IF validates(variant) /\ ~Truthy(parameters)
       THEN [k |-> "respond", response |-> missing("parameters", b)]
     ELSE [k |-> "search", params |-> parameters]

\* POST /execute-tool up to its first await (server.js:62-107,
\* part_000:265-287): it answers at once or calls searchFlights
executeTool(variant, env, b) ==
  LET tool == Get(b, "tool")
      parameters == Get(b, "parameters")
  IN IF IsNullish(b)
       THEN [k |-> "respond", response |-> internalError(variant, env, TypeError)]
     ELSE IF validates(variant) /\ ~Truthy(tool)
       THEN [k |-> "respond", response |-> missing("tool", b)]
     ELSE IF validates(variant) /\ ~Truthy(parameters)
       THEN [k |-> "respond", response |-> missing("parameters", b)]
     ELSE IF tool = Lit("search_flights")
       THEN [k |-> "search", params |-> parameters]
     ELSE [k |-> "respond", response |-> unknownTool(variant, tool)]

\* GET /health (server.js:50-59, part_000:257-262)
healthBody(variant, key) ==
  LET e == [status |-> Lit("healthy"), timestamp |-> Lit("now")]
  IN Response(200,
       Obj(IF variant = "part000b" THEN e
           ELSE e @@ [serp_configured |-> Bool(Truthy(key)),
                      port |-> Lit("PORT"),
                      cors_enabled |-> Bool(TRUE)]))

---------------------------------------------------------------------------
(* bounds and inputs *)

MaxReqs == 2
MaxLegs == 3
MaxMixed == 2
MaxBest == 6
MaxOther == 6

Reqs == 1..MaxReqs

Variants == {"server", "part000a", "part000b", "part001"}
Keys == {Undef, EmptyStr, Lit("key")}
Envs == {Undef, Lit("development")}

BOM == Lit("BOM")
DEL == Lit("DEL")
Day == Lit("2026-01-15")

\* a parsed JSON body holds no undefined: an absent field is left out
Fields(f) == JSON(Obj(f))

ReturnDates ==
  {Undef, Null, EmptyStr, Lit("null"), Lit(" "), Lit("2026-01-20"),
   Str(<<" ", "2026-01-20", " ">>), Num(5)}

ValidParams ==
  {Fields([origin |-> BOM, destination |-> DEL, departure_date |-> Day,
           return_date |-> rd]) : rd \in ReturnDates}

InvalidParams ==
  {Fields([origin |-> o, destination |-> d, departure_date |-> dd]) :
     o \in {Undef, EmptyStr, BOM}, d \in {Undef, DEL}, dd \in {Undef, Day}}
  \ ValidParams

Params == ValidParams \cup InvalidParams

Tools == {Undef, EmptyStr, Lit("search_flights"), Lit("book_hotel")}

Bodies ==
  {Fields([tool |-> tl, parameters |-> p]) :
     tl \in Tools, p \in Params \cup {Undef, Null}}

---------------------------------------------------------------------------
(* the provider's replies *)

legOut ==
  Obj([airline |-> Lit("Air India"), flight_number |-> Lit("AI 101"),
       duration |-> Num(130),
       departure_airport |->
         Obj([id |-> BOM, time |-> Lit("06:00"), name |-> Lit("Mumbai")]),
       arrival_airport |-> Obj([id |-> DEL, time |-> Lit("08:10")])])

legBack ==
  Obj([airline |-> Lit("IndiGo"), flight_number |-> Lit("6E 202"),
       duration |-> Num(125),
       departure_airport |->
         Obj([id |-> DEL, time |-> Lit("18:00"), name |-> Lit("Delhi")]),
       arrival_airport |-> Obj([id |-> BOM, time |-> Lit("20:05")])])

\* a connection: no times, no flight number, no duration; its airport's
\* name mentions the origin
legVia ==
  Obj([airline |-> Lit("Vistara"),
       departure_airport |-> Obj([id |-> Lit("HYD"), name |-> Str(<<"near ", "BOM">>)]),
       arrival_airport |-> Obj([id |-> Lit("HYD")])])

\* a leg with every field left out
legBare == EmptyObj

\* a leg between other airports, leaving from one whose name holds "DEL"
legNear ==
  Obj([airline |-> Lit("IndiGo"),
       departure_airport |->
         Obj([id |-> Lit("GOI"), name |-> Str(<<"DEL", " connection">>)]),
       arrival_airport |-> Obj([id |-> Lit("GOI")])])

\* itineraries of two legs or more with such a leg among them
NearLists ==
  UNION {[1..n -> {legOut, legNear, legBare}] : n \in 2..MaxLegs}

Legs == {legOut, legBack, legVia, legBare, Null}

LegLists == UNION {[1..n -> Legs] : n \in 0..MaxLegs}

Prices == {Undef, Num(100), Num(200)}

Itin(p, legs) == Fields([price |-> p, flights |-> Arr(legs)])

Itins == {Itin(p, l) : p \in Prices, l \in LegLists} \cup {Null, EmptyObj}

SmallItins == {Itin(p, <<legOut>>) : p \in Prices}

MixedLists == UNION {[1..n -> SmallItins] : n \in 0..MaxMixed}

\* n best itineraries, the i-th priced 200 + i
BestRun(n) == [i \in 1..n |-> Itin(Num(200 + i), <<legOut, legBack>>)]

\* n other itineraries, the i-th priced 300 + i
OtherRun(n) == [i \in 1..n |-> Itin(Num(300 + i), <<legOut, legBack>>)]

Data(best, other) == Fields([best_flights |-> best, other_flights |-> other])

Replies ==
  {Data(Arr(<<it>>), Undef) : it \in Itins}
  \cup {Data(Undef, Arr(<<it>>)) : it \in {Itin(Num(100), l) : l \in LegLists}}
  \cup {Data(Arr(b), Undef) : b \in MixedLists}
  \cup {Data(Arr(b), Arr(OtherRun(1))) : b \in MixedLists}
  \cup {Data(Arr(BestRun(n)), Arr(OtherRun(m))) : n \in 0..MaxBest, m \in 0..MaxOther}
  \cup {Data(Undef, Arr(OtherRun(m))) : m \in 0..MaxOther}
  \cup {Data(Arr(<<Itin(Num(100), l)>>), Undef) : l \in NearLists}
  \cup {Null, EmptyObj,
        Fields([best_flights |-> Arr(<<Itin(Num(100), <<legOut>>)>>),
                price_insights |-> Obj([lowest_price |-> Num(100)])]),
        Data(Arr(<<Itin(Num(100), <<legOut>>), Itin(Num(150), <<>>),
                   Itin(Num(200), <<legOut, legBack>>)>>),
             Arr(OtherRun(2)))}

\* the failures of axios.get: no reply (timeout, network), or a reply with a
\* status outside 2xx
Errors ==
  {Obj([message |-> Lit("timeout of 30000ms exceeded"), response |-> Undef]),
   Obj([message |-> Lit("Request failed with status code 401"),
        response |-> Obj([status |-> Num(401),
                          data |-> Obj([error |-> Lit("Invalid API key")])])]),
   Obj([message |-> Lit("Request failed with status code 500"),
        response |-> Obj([status |-> Num(500), data |-> Lit("<html>")])])}

\* the replies of the specification of the routes
FewReplies ==
  {Data(Arr(<<Itin(Num(200), <<legOut>>), Itin(Num(100), <<legOut, legBack>>)>>),
        Arr(OtherRun(1))),
   Data(Arr(<<>>), Arr(<<>>)),
   EmptyObj,
   Null}

---------------------------------------------------------------------------
(* the state machine *)

None == Undef

Idle ==
  /\ pc = [r \in Reqs |-> "idle"]
  /\ body = [r \in Reqs |-> None]
  /\ result = [r \in Reqs |-> None]
  /\ query = [r \in Reqs |-> None]
  /\ calls = [r \in Reqs |-> 0]
  /\ resp = [r \in Reqs |-> None]
  /\ sent = [r \in Reqs |-> 0]
  /\ invoked = [r \in Reqs |-> FALSE]
  /\ reply = [r \in Reqs |-> None]
  /\ health = None

\* the process starts: one of the four servers, with its environment
Init ==
  /\ impl \in Variants
  /\ SERP_API_KEY \in Keys
  /\ NODE_ENV \in Envs
  /\ Idle

\* a POST /execute-tool arrives and its handler runs to its first await
Receive(r, b) ==
  /\ pc[r] = "idle"
  /\ body' = [body EXCEPT ![r] = b]
  /\ LET h == executeTool(impl, NODE_ENV, b)
     IN IF h.k = "respond"
        THEN /\ pc' = [pc EXCEPT ![r] = "responded"]
             /\ resp' = [resp EXCEPT ![r] = h.response]
             /\ sent' = [sent EXCEPT ![r] = @ + 1]
             /\ UNCHANGED <<result, query, calls, invoked>>
        ELSE LET s == searchFlights(impl, h.params, SERP_API_KEY)
             IN /\ invoked' = [invoked EXCEPT ![r] = TRUE]
                /\ IF s.k = "call"
                   THEN /\ pc' = [pc EXCEPT ![r] = "awaitAxios"]
                        /\ query' = [query EXCEPT ![r] = s.query]
                        /\ calls' = [calls EXCEPT ![r] = @ + 1]
                        /\ UNCHANGED result
                   ELSE /\ pc' = [pc EXCEPT ![r] = "awaitResult"]
                        /\ result' = [result EXCEPT ![r] = s]
                        /\ UNCHANGED <<query, calls>>
                /\ UNCHANGED <<resp, sent>>
  /\ UNCHANGED <<impl, SERP_API_KEY, NODE_ENV, reply, health>>

\* axios.get resolves: searchFlights runs from its await to its return
UpstreamOk(r, data) ==
  /\ pc[r] = "awaitAxios"
  /\ reply' = [reply EXCEPT ![r] = [ok |-> TRUE, data |-> data]]
  /\ result' = [result EXCEPT ![r] =
       [k |-> "return",
        value |-> searchDone(impl, Get(body[r], "parameters"), data)]]
  /\ pc' = [pc EXCEPT ![r] = "awaitResult"]
  /\ UNCHANGED <<impl, SERP_API_KEY, NODE_ENV, body, query, calls, resp, sent,
                 invoked, health>>

\* axios.get rejects and the call is made once more
UpstreamErrRetry(r, error) ==
  /\ pc[r] = "awaitAxios"
  /\ IF calls[r] < 2
     THEN /\ calls' = [calls EXCEPT ![r] = @ + 1]
          /\ reply' = [reply EXCEPT ![r] = [ok |-> FALSE, error |-> error]]
          /\ UNCHANGED <<result, pc>>
     ELSE /\ reply' = [reply EXCEPT ![r] = [ok |-> FALSE, error |-> error]]
          /\ result' = [result EXCEPT ![r] =
               [k |-> "return",
                value |-> failure(impl, Get(body[r], "parameters"), error)]]
          /\ pc' = [pc EXCEPT ![r] = "awaitResult"]
          /\ UNCHANGED calls
  /\ UNCHANGED <<impl, SERP_API_KEY, NODE_ENV, body, query, resp, sent,
                 invoked, health>>

\* axios.get rejects: the catch of searchFlights returns the failure
UpstreamErr(r, error) ==
  /\ pc[r] = "awaitAxios"
  /\ reply' = [reply EXCEPT ![r] = [ok |-> FALSE, error |-> error]]
  /\ result' = [result EXCEPT ![r] =
       [k |-> "return",
        value |-> failure(impl, Get(body[r], "parameters"), error)]]
  /\ pc' = [pc EXCEPT ![r] = "awaitResult"]
  /\ UNCHANGED <<impl, SERP_API_KEY, NODE_ENV, body, query, calls, resp, sent,
                 invoked, health>>

\* the handler resumes and answers with the result of the lowest-numbered
\* request that waits for one, as if the result were kept in a module variable
RespondShared(r) ==
  /\ pc[r] = "awaitResult"
  /\ LET s == CHOOSE s \in Reqs :
                /\ pc[s] = "awaitResult"
                /\ \A q \in Reqs : pc[q] = "awaitResult" => s <= q
     IN resp' = [resp EXCEPT ![r] =
          IF result[s].k = "return"
          THEN Response(200, result[s].value)
          ELSE internalError(impl, NODE_ENV, result[s].error)]
  /\ sent' = [sent EXCEPT ![r] = @ + 1]
  /\ pc' = [pc EXCEPT ![r] = "responded"]
  /\ UNCHANGED <<impl, SERP_API_KEY, NODE_ENV, body, result, query, calls,
                 invoked, reply, health>>

\* the handler resumes and answers a result only: an exception out of
\* searchFlights is swallowed and the request stays open
RespondResultOnly(r) ==
  /\ pc[r] = "awaitResult"
  /\ IF result[r].k = "return"
     THEN /\ resp' = [resp EXCEPT ![r] = Response(200, result[r].value)]
          /\ sent' = [sent EXCEPT ![r] = @ + 1]
          /\ pc' = [pc EXCEPT ![r] = "responded"]
     ELSE /\ pc' = [pc EXCEPT ![r] = "open"]
          /\ UNCHANGED <<resp, sent>>
  /\ UNCHANGED <<impl, SERP_API_KEY, NODE_ENV, body, result, query, calls,
                 invoked, reply, health>>

\* the handler resumes after `await searchFlights(parameters)`:
\* res.json(result), or its catch (server.js:89-91, 99-106)
Respond(r) ==
  /\ pc[r] = "awaitResult"
  /\ resp' = [resp EXCEPT ![r] =
       IF result[r].k = "return"
       THEN Response(200, result[r].value)
       ELSE internalError(impl, NODE_ENV, result[r].error)]
  /\ sent' = [sent EXCEPT ![r] = @ + 1]
  /\ pc' = [pc EXCEPT ![r] = "responded"]
  /\ UNCHANGED <<impl, SERP_API_KEY, NODE_ENV, body, result, query, calls,
                 invoked, reply, health>>

\* the request is over: nothing of it is kept
Close(r) ==
  /\ pc[r] = "responded"
  /\ pc' = [pc EXCEPT ![r] = "idle"]
  /\ body' = [body EXCEPT ![r] = None]
  /\ result' = [result EXCEPT ![r] = None]
  /\ query' = [query EXCEPT ![r] = None]
  /\ calls' = [calls EXCEPT ![r] = 0]
  /\ resp' = [resp EXCEPT ![r] = None]
  /\ sent' = [sent EXCEPT ![r] = 0]
  /\ invoked' = [invoked EXCEPT ![r] = FALSE]
  /\ reply' = [reply EXCEPT ![r] = None]
  /\ UNCHANGED <<impl, SERP_API_KEY, NODE_ENV, health>>

\* GET /health
Health ==
  /\ health' = healthBody(impl, SERP_API_KEY)
  /\ UNCHANGED <<impl, SERP_API_KEY, NODE_ENV, pc, body, result, query, calls,
                 resp, sent, invoked, reply>>

\* the routes, one request at a time, any body
Next ==
  \/ \E b \in Bodies : Receive(1, b)
  \/ \E d \in FewReplies : UpstreamOk(1, d)
  \/ \E e \in Errors : UpstreamErr(1, e)
  \/ Respond(1)
  \/ Close(1)
  \/ Health

Spec == Init /\ [][Next]_vars

\* a request body that is not JSON: express.json() passes a SyntaxError to
\* next(err) and no route runs
Unparsed == [t |-> "unparsed"]

SyntaxError == Obj([message |-> Lit("Unexpected token in JSON"), response |-> Undef])

\* part_001:308-314: the error-handling middleware
errorHandler(err) ==
  Response(500,
    Obj([error |-> Lit("Internal server error"),
         message |-> Get(err, "message")]))

\* the copies without an error-handling middleware leave the error to
\* Express: the status of the error (400 for a body that does not parse) and,
\* outside production, its stack as text
defaultHandler(err) ==
  [status |-> 400,
   body |-> Str(JSString(Get(err, "message")) \o <<"\n    at ">>)]

\* a POST /execute-tool whose body does not parse (server.js:22,
\* part_001:20 and 308-314)
ParseError(r) ==
  /\ pc[r] = "idle"
  /\ body' = [body EXCEPT ![r] = Unparsed]
  /\ result' = [result EXCEPT ![r] = [k |-> "throw", error |-> SyntaxError]]
  /\ resp' = [resp EXCEPT ![r] =
       IF impl = "part001" THEN errorHandler(SyntaxError)
       ELSE defaultHandler(SyntaxError)]
  /\ sent' = [sent EXCEPT ![r] = @ + 1]
  /\ pc' = [pc EXCEPT ![r] = "responded"]
  /\ UNCHANGED <<impl, SERP_API_KEY, NODE_ENV, query, calls, invoked, reply,
                 health>>

\* the routes, and bodies that do not parse
NextFault ==
  \/ Next
  \/ ParseError(1)

SpecFault == Init /\ [][NextFault]_vars

\* requests in flight together: a search, a search without origin, an unknown
\* tool, a search without parameters
ConcBodies ==
  {Fields([tool |-> Lit("search_flights"),
           parameters |-> Obj([origin |-> BOM, destination |-> DEL,
                               departure_date |-> Day])]),
   Fields([tool |-> Lit("search_flights"),
           parameters |-> Obj([destination |-> DEL, departure_date |-> Day])]),
   Fields([tool |-> Lit("book_hotel"),
           parameters |-> Obj([origin |-> BOM, destination |-> DEL,
                               departure_date |-> Day])]),
   Fields([tool |-> Lit("search_flights")])}

ConcReplies == {Data(Arr(BestRun(1)), Arr(<<>>)), Null}

ConcErrors ==
  {Obj([message |-> Lit("timeout of 30000ms exceeded"), response |-> Undef])}

InitConc ==
  /\ impl \in Variants
  /\ SERP_API_KEY \in {Undef, Lit("key")}
  /\ NODE_ENV = Undef
  /\ Idle

\* the provider answers the call of request r, one way or another
Upstream(r) ==
  \/ \E d \in ConcReplies : UpstreamOk(r, d)
  \/ \E e \in ConcErrors : UpstreamErr(r, e)

\* POST /execute-tool, any number of requests between their awaits
NextConc ==
  \E r \in Reqs :
    \/ \E b \in ConcBodies : Receive(r, b)
    \/ Upstream(r)
    \/ Respond(r)
    \/ Close(r)

\* the event loop runs every continuation that is ready, and axios settles
\* every call (a reply, an error, or the timeout of 30000 ms)
SpecConc ==
  /\ InitConc
  /\ [][NextConc]_vars
  /\ \A r \in Reqs : WF_vars(Respond(r)) /\ WF_vars(Upstream(r))

\* the transform: requests that reach the provider, any reply
SearchBodies ==
  {Fields([tool |-> Lit("search_flights"),
           parameters |-> Obj([origin |-> BOM, destination |-> DEL,
                               departure_date |-> Day, return_date |-> rd])]) :
     rd \in {Undef, Lit(" "), Lit("2026-01-20")}}

InitParse ==
  /\ impl \in Variants
  /\ SERP_API_KEY = Lit("key")
  /\ NODE_ENV = Undef
  /\ Idle

NextParse ==
  \/ \E b \in SearchBodies : Receive(1, b)
  \/ \E d \in Replies : UpstreamOk(1, d)
  \/ Respond(1)
  \/ Close(1)

SpecParse == InitParse /\ [][NextParse]_vars

---------------------------------------------------------------------------
(* what a request asked and what it was answered *)

Tool(r) == Get(body[r], "tool")
Parameters(r) == Get(body[r], "parameters")
Origin(r) == Get(Parameters(r), "origin")
Destination(r) == Get(Parameters(r), "destination")
DepartureDate(r) == Get(Parameters(r), "departure_date")
ReturnDate(r) == Get(Parameters(r), "return_date")

Responded(r) == pc[r] = "responded"
Status(r) == resp[r].status
Answer(r) == resp[r].body
Failed(r) == Get(Answer(r), "success") = Bool(FALSE)
Succeeded(r) == Get(Answer(r), "success") = Bool(TRUE)

\* the request names the flight search and carries parameters
IsSearch(r) == Tool(r) = Lit("search_flights") /\ ~IsNullish(Parameters(r))

\* a required search field is absent or empty
LacksRequired(r) ==
  \E f \in {"origin", "destination", "departure_date"} :
    Get(Parameters(r), f) \in {Undef, Null, EmptyStr}

KeyMissing == SERP_API_KEY \in {Undef, EmptyStr}

---------------------------------------------------------------------------
(* C1 *)

\* C1: in every copy of searchFlights, a search whose origin, destination or
\* departure_date is missing or empty makes no call to the provider and is
\* answered success=false.
C1_MissingFieldNoCall ==
  \A r \in Reqs :
    (pc[r] # "idle" /\ IsSearch(r) /\ LacksRequired(r)) =>
      /\ calls[r] = 0
      /\ Responded(r) => Failed(r)

---------------------------------------------------------------------------
(* C2 *)

\* C2 (as claimed): without SERP_API_KEY every search_flights request of
\* server.js is answered success=false with the error
\* 'SERP_API_KEY not configured'.
C2_AlwaysConfigError ==
  \A r \in Reqs :
    (impl = "server" /\ KeyMissing /\ Responded(r) /\ IsSearch(r)) =>
      /\ Failed(r)
      /\ Get(Answer(r), "error") = Lit("SERP_API_KEY not configured")

\* C2 (amended): without SERP_API_KEY no request of server.js reaches the
\* provider, none is answered by the handler's catch (500), every
\* search_flights request is answered success=false, and the error is
\* 'SERP_API_KEY not configured' when the request carries parameters with all
\* three required fields; GET /health reports serp_configured=false in exactly
\* the configurations without a key.
C2_NoKeyFailsCleanly ==
  /\ \A r \in Reqs :
       (impl = "server" /\ KeyMissing) =>
         /\ calls[r] = 0
         /\ pc[r] # "awaitAxios"
         /\ (Responded(r) /\ Tool(r) = Lit("search_flights")) =>
              /\ Failed(r)
              /\ Status(r) # 500
              /\ (IsSearch(r) /\ ~LacksRequired(r)) =>
                   /\ Status(r) = 200
                   /\ Get(Answer(r), "error") = Lit("SERP_API_KEY not configured")
  /\ (impl = "server" /\ health # None) =>
       /\ Has(health.body, "serp_configured")
       /\ (Get(health.body, "serp_configured") = Bool(FALSE)) <=> KeyMissing

\* a search with all its fields was answered by a server without a key, and
\* its health was asked
C2_Witness ==
  /\ impl = "server" /\ KeyMissing /\ health # None
  /\ \E r \in Reqs : Responded(r) /\ IsSearch(r) /\ ~LacksRequired(r)

---------------------------------------------------------------------------
(* C3 *)

Flights(r) == Get(Answer(r), "flights").v

\* C3: in every successful search response the flights are in ascending order
\* of price (for any i < j with both prices numbers, price[i] <= price[j]).
C3_PriceSorted ==
  \A r \in Reqs :
    (Responded(r) /\ IsSearch(r) /\ Succeeded(r)) =>
      \A i, j \in 1..Len(Flights(r)) :
        LET a == Get(Flights(r)[i], "price")
            b == Get(Flights(r)[j], "price")
        IN (i < j /\ a.t = "number" /\ b.t = "number") => a.v <= b.v

---------------------------------------------------------------------------
(* C4 *)

IsBlank(x) == x.t = "string" /\ \A i \in 1..Len(x.v) : x.v[i] \in {" ", "\t"}

TypeFlag(r) == Get(query[r], "type")

\* C4 (as claimed): in server.js every return_date that is a non-empty string
\* other than "null" is classified round-trip (type '1').
C4_AnyOtherStringRoundTrip ==
  \A r \in Reqs :
    (impl = "server" /\ query[r] # None /\ ReturnDate(r).t = "string"
       /\ ReturnDate(r) \notin {EmptyStr, Lit("null")}) =>
      TypeFlag(r) = Lit("1")

\* C4 (amended): in server.js a return_date that is absent, null, the literal
\* "null", or a string that is empty or only white space is classified one-way
\* (type '2', trip_type 'one-way'); a return_date that is any other string is
\* classified round-trip (type '1', trip_type 'round-trip').
C4_TripType ==
  \A r \in Reqs :
    (impl = "server" /\ query[r] # None) =>
      LET rd == ReturnDate(r)
          oneWay == rd \in {Undef, Null, Lit("null")} \/ IsBlank(rd)
      IN /\ oneWay \/ rd.t = "string"
         /\ TypeFlag(r) = (IF oneWay THEN Lit("2") ELSE Lit("1"))
         /\ (Responded(r) /\ Succeeded(r)) =>
              Get(Answer(r), "trip_type") =
                (IF oneWay THEN Lit("one-way") ELSE Lit("round-trip"))

\* a search with a return date of white space only was answered with flights
C4_Witness ==
  \E r \in Reqs :
    /\ impl = "server" /\ Responded(r) /\ Succeeded(r)
    /\ ReturnDate(r) = Lit(" ")

---------------------------------------------------------------------------
(* the provider's reply to a request, read without the transform *)

ListOf(x) == IF x.t = "array" THEN x.v ELSE <<>>
FirstFive(l) == SubSeq(l, 1, IF Len(l) < 5 THEN Len(l) ELSE 5)
LegsOf(it) == ListOf(Get(it, "flights"))
HasLeg(it) == Len(LegsOf(it)) >= 1

BestOf(r) == ListOf(Get(reply[r].data, "best_flights"))
OtherOf(r) == ListOf(Get(reply[r].data, "other_flights"))

\* the itineraries with a leg, best first, then the first five others
Offered(r) == SelectSeq(BestOf(r) \o FirstFive(OtherOf(r)), HasLeg)

\* the request was answered with flights (server.js)
Answered(r) ==
  /\ impl = "server" /\ Responded(r) /\ reply[r] # None /\ reply[r].ok
  /\ Succeeded(r)

RoundTripAsked(r) == Get(Answer(r), "trip_type") = Lit("round-trip")

---------------------------------------------------------------------------
(* C5 *)

\* C5 (as claimed): a surfaced itinerary of n >= 1 legs reports n - 1 stops
\* when the request is one-way and n - 2 stops when it is round-trip.
C5_StopsByTripType ==
  \A r \in Reqs :
    Answered(r) =>
      /\ Len(Flights(r)) = Len(Offered(r))
      /\ \A i \in 1..Len(Flights(r)) :
           LET n == Len(LegsOf(Offered(r)[i]))
           IN Get(Flights(r)[i], "stops") =
                Num(IF RoundTripAsked(r) THEN n - 2 ELSE n - 1)

\* C5 (amended): a surfaced itinerary of n >= 1 legs reports n - 2 stops when
\* the request is round-trip and n >= 2, and n - 1 stops otherwise (one-way, or
\* a single leg).
C5_Stops ==
  \A r \in Reqs :
    Answered(r) =>
      /\ Len(Flights(r)) = Len(Offered(r))
      /\ \A i \in 1..Len(Flights(r)) :
           LET n == Len(LegsOf(Offered(r)[i]))
           IN Get(Flights(r)[i], "stops") =
                Num(IF RoundTripAsked(r) /\ n >= 2 THEN n - 2 ELSE n - 1)

\* a round-trip search was answered with an itinerary of three legs and a
\* one-way search with one of two
C5_Witness ==
  \E r \in Reqs :
    /\ Answered(r) /\ RoundTripAsked(r)
    /\ \E i \in 1..Len(Offered(r)) : Len(LegsOf(Offered(r)[i])) = 3

---------------------------------------------------------------------------
(* C6 *)

IsType(rec, type) == Get(rec, "type") = Lit(type)
Count(fl, type) == Cardinality({i \in 1..Len(fl) : IsType(fl[i], type)})

\* the reply's itineraries that have a first leg
Usable(l) == {j \in 1..Len(l) : HasLeg(l[j]) /\ ~IsNullish(LegsOf(l[j])[1])}

\* C6: whatever the provider replies, the flights hold at most 5 records of
\* type 'other', each made from one of the first five other_flights, none from
\* an entry at index >= 5 (the replies with more than five others price each
\* differently, so a price names its entry); every best_flights entry with a
\* leg is surfaced, however many there are.
C6_OtherCapped ==
  \A r \in Reqs :
    (Responded(r) /\ reply[r] # None /\ reply[r].ok /\ Succeeded(r)) =>
      LET fl == Flights(r)
      IN /\ Count(fl, "other") <= 5
         /\ Count(fl, "other") = Cardinality(Usable(FirstFive(OtherOf(r))))
         /\ \A i \in 1..Len(fl) :
              IsType(fl[i], "other") =>
                \E j \in 1..Len(FirstFive(OtherOf(r))) :
                  Get(fl[i], "price") = Or(Get(OtherOf(r)[j], "price"), NA)
         /\ \A j \in 6..Len(OtherOf(r)) :
              \A i \in 1..Len(fl) :
                Get(fl[i], "price") # Get(OtherOf(r)[j], "price")
         /\ Count(fl, "best") = Cardinality(Usable(BestOf(r)))

\* a reply of six best and six other itineraries was answered
C6_Witness ==
  \E r \in Reqs :
    /\ Responded(r) /\ reply[r] # None /\ reply[r].ok /\ Succeeded(r)
    /\ Len(OtherOf(r)) = 6 /\ Len(BestOf(r)) = 6
    /\ Count(Flights(r), "other") = 5
    /\ Count(Flights(r), "best") = 6

---------------------------------------------------------------------------
(* C7 *)

\* a field as the provider sent it, or a placeholder when it is left out
Default(x, placeholder) == IF x = Undef THEN placeholder ELSE x

DepOf(leg) == Get(leg, "departure_airport")
ArrOf(leg) == Get(leg, "arrival_airport")

\* the seven fields of a leg's details, with the airport codes defaulting to
\* the given codes
Details(leg, depCode, arrCode) ==
  Obj([departure_time |-> Default(OptGet(DepOf(leg), "time"), Lit("N/A")),
       arrival_time |-> Default(OptGet(ArrOf(leg), "time"), Lit("N/A")),
       departure_airport |-> Default(OptGet(DepOf(leg), "id"), depCode),
       arrival_airport |-> Default(OptGet(ArrOf(leg), "id"), arrCode),
       duration |-> Default(Get(leg, "duration"), Lit("N/A")),
       airline |-> Default(Get(leg, "airline"), Lit("Unknown")),
       flight_number |-> Default(Get(leg, "flight_number"), Lit("N/A"))])

DetailFields ==
  {"departure_time", "arrival_time", "departure_airport", "arrival_airport",
   "duration", "airline", "flight_number"}

\* every field is there and is text or a number
Filled(details) ==
  \A f \in DetailFields :
    Has(details, f) /\ details.v[f].t \in {"string", "number"}

\* neither the reply, nor an itinerary, nor a leg is null
WellFormed(r) ==
  /\ reply[r].data.t = "object"
  /\ \A l \in {BestOf(r), OtherOf(r)} :
       \A j \in 1..Len(l) :
         /\ l[j].t = "object"
         /\ \A k \in 1..Len(LegsOf(l[j])) : LegsOf(l[j])[k].t = "object"

\* the record's outbound leg is a direct copy of the itinerary's first leg
FirstLegRecord(r, i) ==
  ~(RoundTripAsked(r) /\ Len(LegsOf(Offered(r)[i])) >= 2)

\* C7 (as claimed): a departure or arrival airport code the provider left out
\* is surfaced as "N/A".
C7_AirportCodeNA ==
  \A r \in Reqs :
    Answered(r) =>
      \A i \in 1..Len(Flights(r)) :
        LET leg == LegsOf(Offered(r)[i])[1]
            out == Get(Flights(r)[i], "outbound")
        IN FirstLegRecord(r, i) =>
             /\ OptGet(DepOf(leg), "id") = Undef =>
                  Get(out, "departure_airport") = Lit("N/A")
             /\ OptGet(ArrOf(leg), "id") = Undef =>
                  Get(out, "arrival_airport") = Lit("N/A")

\* C7 (amended): in every flight record of a successful response of
\* server.js, a field the provider left out of a leg is surfaced as "N/A"
\* (flight number, duration, departure and arrival time), as "Unknown"
\* (airline), or as the request's own origin and destination (departure and
\* arrival airport code; destination and origin for the return leg); a price
\* left out is "N/A"; no such field is null or undefined, and a reply whose
\* itineraries and legs are objects is answered with success, whatever fields
\* they leave out.
C7_Defaults ==
  \A r \in Reqs :
    /\ (impl = "server" /\ Responded(r) /\ reply[r] # None /\ reply[r].ok
          /\ WellFormed(r)) => Succeeded(r)
    /\ Answered(r) =>
         /\ Len(Flights(r)) = Len(Offered(r))
         /\ \A i \in 1..Len(Flights(r)) :
              LET rec == Flights(r)[i]
                  it == Offered(r)[i]
                  legs == LegsOf(it)
                  out == Get(rec, "outbound")
                  ret == Get(rec, "return")
              IN /\ Get(rec, "price") = Default(Get(it, "price"), Lit("N/A"))
                 /\ Filled(out)
                 /\ Get(rec, "airline") = Get(out, "airline")
                 /\ Get(rec, "flight_number") = Get(out, "flight_number")
                 /\ IF FirstLegRecord(r, i)
                    THEN /\ out = Details(legs[1], Origin(r), Destination(r))
                         /\ \A f \in {"departure_time", "arrival_time", "duration"} :
                              Has(rec, f) /\ Get(rec, f) = Get(out, f)
                    ELSE /\ \E k \in 1..Len(legs) :
                              out = Details(legs[k], Origin(r), Destination(r))
                         /\ Filled(ret)
                         /\ \E k \in 1..Len(legs) :
                              ret = Details(legs[k], Destination(r), Origin(r))

\* a leg with every field left out was surfaced, one-way and round-trip
C7_Witness ==
  \E r \in Reqs :
    /\ Answered(r) /\ RoundTripAsked(r)
    /\ \E i \in 1..Len(Flights(r)) :
         /\ LegsOf(Offered(r)[i]) = <<legBare, legBare>>
         /\ ~Has(Offered(r)[i], "price")

---------------------------------------------------------------------------
(* C8 *)

UnknownToolAnswer(r) ==
  /\ Status(r) = 400
  /\ Failed(r)
  /\ Get(Answer(r), "error") = Str(<<"Unknown tool: ">> \o Tool(r).v)
  /\ Get(Answer(r), "available_tools") = Arr(<<Lit("search_flights")>>)

\* C8 (as claimed): every request of server.js whose tool is a value other
\* than 'search_flights' is answered 400 with 'Unknown tool: <tool>' and the
\* supported tools, without a call of searchFlights.
C8_AnyOtherToolUnknown ==
  \A r \in Reqs :
    (impl = "server" /\ Responded(r) /\ Tool(r).t = "string"
       /\ Tool(r) \notin {EmptyStr, Lit("search_flights")}) =>
      UnknownToolAnswer(r) /\ ~invoked[r]

\* C8 (amended): every request of server.js whose tool is not
\* 'search_flights' is answered 400 with success=false without a call of
\* searchFlights; when the tool is a non-empty identifier and the request
\* carries parameters, the error is 'Unknown tool: <tool>' and the supported
\* tools ['search_flights'] are listed.
C8_UnknownTool ==
  \A r \in Reqs :
    (impl = "server" /\ pc[r] # "idle" /\ Tool(r) # Lit("search_flights")) =>
      /\ ~invoked[r] /\ calls[r] = 0
      /\ Responded(r)
      /\ Status(r) = 400 /\ Failed(r)
      /\ (Tool(r).t = "string" /\ Tool(r) # EmptyStr
            /\ Parameters(r).t = "object") => UnknownToolAnswer(r)

\* an unknown tool was asked with parameters
C8_Witness ==
  \E r \in Reqs :
    /\ impl = "server" /\ Responded(r)
    /\ Tool(r) = Lit("book_hotel") /\ Parameters(r).t = "object"

---------------------------------------------------------------------------
(* C9 *)

\* C9: every malformed request of server.js (no tool, no parameters, or a
\* search whose parameters lack a required field) is answered 400 with
\* success=false.
C9_Malformed400 ==
  \A r \in Reqs :
    (impl = "server" /\ Responded(r)
       /\ \/ ~Has(body[r], "tool")
          \/ ~Has(body[r], "parameters")
          \/ (IsSearch(r) /\ LacksRequired(r))) =>
      Status(r) = 400 /\ Failed(r)

---------------------------------------------------------------------------
(* C10 *)

\* C10: when the call to the provider fails (no reply, time-out, or a status
\* outside 2xx), server.js answers 200 with success=false, the failure's
\* message as error, and a fallback_message that holds the request's origin,
\* destination and departure_date.
C10_UpstreamFailure ==
  \A r \in Reqs :
    (impl = "server" /\ Responded(r) /\ reply[r] # None /\ ~reply[r].ok) =>
      /\ Status(r) = 200
      /\ Failed(r)
      /\ Get(Answer(r), "error") = Get(reply[r].error, "message")
      /\ LET text == Get(Answer(r), "fallback_message")
         IN /\ text.t = "string"
            /\ \E i, j, k \in 1..Len(text.v) :
                 /\ i < j /\ j < k
                 /\ <<text.v[i]>> = Origin(r).v
                 /\ <<text.v[j]>> = Destination(r).v
                 /\ <<text.v[k]>> = DepartureDate(r).v

\* the provider answered 401 and the request was answered
C10_Witness ==
  \E r \in Reqs :
    /\ impl = "server" /\ Responded(r) /\ reply[r] # None /\ ~reply[r].ok
    /\ Get(OptGet(reply[r].error, "response"), "status") = Num(401)

---------------------------------------------------------------------------
(* C11 *)

\* C11: one POST /execute-tool request makes at most one call to the
\* provider, and once that call has failed no further call is made for the
\* request before its response is sent: from the failure on the request's
\* call count stays 1 until the request is over.
C11_NoRetry ==
  [][\A r \in Reqs :
       /\ calls[r] <= 1 /\ calls'[r] <= 1
       /\ (reply[r] # None /\ ~reply[r].ok /\ pc'[r] # "idle") =>
            (calls[r] = 1 /\ calls'[r] = 1 /\ pc'[r] # "awaitAxios")]_vars

\* a request whose call failed was answered
C11_Witness ==
  \E r \in Reqs :
    /\ Responded(r) /\ reply[r] # None /\ ~reply[r].ok
    /\ calls[r] = 1 /\ sent[r] = 1

---------------------------------------------------------------------------
(* C12 *)

\* an error was thrown while the request was handled, and the repository's
\* own code answered it (the catch of the handler, or the error-handling
\* middleware of part_001)
Faulted(r) ==
  /\ Responded(r)
  /\ result[r] # None /\ result[r].k = "throw"
  /\ body[r] = Unparsed => impl = "part001"

\* the text appears in a field of the response body
Leaks(r, text) ==
  \E f \in DOMAIN Answer(r).v :
    Answer(r).v[f].t = "string" /\ Includes(Answer(r).v[f].v, text)

\* C12: outside development, an internal fault while a POST /execute-tool is
\* handled is answered 500 with a generic text: no field of the response
\* holds the error's own message or stack.
C12_GenericError ==
  \A r \in Reqs :
    (Faulted(r) /\ NODE_ENV # Lit("development")) =>
      /\ Status(r) = 500
      /\ ~Leaks(r, Get(result[r].error, "message").v)

---------------------------------------------------------------------------
(* C13 *)

\* the request's return_date names a date: a string other than "null" with a
\* character that is not white space
NamesReturn(r) ==
  LET rd == ReturnDate(r)
  IN rd.t = "string" /\ rd # Lit("null") /\ ~IsBlank(rd)

CarriesReturn(r) == Has(query[r], "return_date")

\* C13: for every call server.js makes to the provider, the query holds
\* return_date (the request's own) exactly when the request is round-trip,
\* exactly when the query's type is '1', and a successful response then says
\* trip_type 'round-trip'; a one-way query has type '2', no return_date, and
\* its response says 'one-way'.
C13_ReturnDateIffRoundTrip ==
  \A r \in Reqs :
    (impl = "server" /\ query[r] # None) =>
      /\ CarriesReturn(r) <=> NamesReturn(r)
      /\ CarriesReturn(r) <=> TypeFlag(r) = Lit("1")
      /\ ~CarriesReturn(r) <=> TypeFlag(r) = Lit("2")
      /\ CarriesReturn(r) => Get(query[r], "return_date") = ReturnDate(r)
      /\ (Responded(r) /\ Succeeded(r)) =>
           /\ CarriesReturn(r) <=> RoundTripAsked(r)
           /\ ~CarriesReturn(r) <=> Get(Answer(r), "trip_type") = Lit("one-way")

\* a round-trip search of server.js was answered with flights, its query
\* holding the return date
C13_Witness ==
  \E r \in Reqs :
    /\ impl = "server" /\ Responded(r) /\ Succeeded(r)
    /\ calls[r] = 1 /\ CarriesReturn(r) /\ RoundTripAsked(r)
    /\ TypeFlag(r) = Lit("1")

---------------------------------------------------------------------------
(* C14 *)

\* everything the process holds about request r
Slot(r) ==
  <<pc[r], body[r], result[r], query[r], calls[r], resp[r], sent[r],
    invoked[r], reply[r]>>

\* answered requests with the same body and the same reply of the provider
\* (or none) have the same response, whatever else was in flight
SameInSameOut ==
  \A r, s \in Reqs :
    (Responded(r) /\ Responded(s) /\ body[r] = body[s] /\ reply[r] = reply[s])
      => resp[r] = resp[s]

\* a step changes what is held about one request at most, and never the
\* configuration
OneSlotPerStep ==
  /\ <<impl, SERP_API_KEY, NODE_ENV>>' = <<impl, SERP_API_KEY, NODE_ENV>>
  /\ \A r, s \in Reqs : (r # s /\ Slot(r)' # Slot(r)) => Slot(s)' = Slot(s)

\* C14: concurrent requests do not interact: in every interleaving the
\* response to a request depends on its own body, the configuration and the
\* provider's reply to its own call, and no step of one request changes the
\* state of another.
C14_Independent == []SameInSameOut /\ [][OneSlotPerStep]_vars

\* two requests with the same body were in flight together, received the same
\* reply from the provider and are both answered
C14_Witness ==
  \E r, s \in Reqs :
    /\ r # s /\ Responded(r) /\ Responded(s)
    /\ body[r] = body[s] /\ reply[r] = reply[s] /\ reply[r] # None
    /\ calls[r] = 1 /\ calls[s] = 1

---------------------------------------------------------------------------
(* C15 *)

NoList(x) == x \in {Undef, Arr(<<>>)}

\* the provider answered the call of r with an object whose best_flights and
\* other_flights are both empty or absent
EmptyReply(r) ==
  /\ Responded(r) /\ reply[r] # None /\ reply[r].ok
  /\ reply[r].data.t = "object"
  /\ NoList(Get(reply[r].data, "best_flights"))
  /\ NoList(Get(reply[r].data, "other_flights"))

NothingFound(r) ==
  /\ Get(Answer(r), "flights") = Arr(<<>>)
  /\ Get(Answer(r), "total_results") = Num(0)

\* C15 (as claimed): in every implementation a successful reply with empty or
\* absent best_flights and other_flights gives a success envelope with
\* flights = [] and total_results = 0.
C15_EmptyIsSuccessEverywhere ==
  \A r \in Reqs :
    EmptyReply(r) => (Status(r) = 200 /\ Succeeded(r) /\ NothingFound(r))

\* C15 (amended): a successful reply with empty or absent best_flights and
\* other_flights is answered 200 with flights = [] and total_results = 0; the
\* envelope says success = true in server.js and in both servers of part_000,
\* and success = false with error 'No flights found' in part_001.
C15_EmptyResult ==
  \A r \in Reqs :
    EmptyReply(r) =>
      /\ Status(r) = 200 /\ NothingFound(r)
      /\ IF impl = "part001"
         THEN Failed(r) /\ Get(Answer(r), "error") = Lit("No flights found")
         ELSE Succeeded(r) /\ ~Has(Answer(r), "error")

\* part_001 answered a reply whose lists are both empty
C15_Witness ==
  \E r \in Reqs :
    /\ EmptyReply(r) /\ impl = "part001" /\ Failed(r)
    /\ reply[r].data = Data(Arr(<<>>), Arr(<<>>))

---------------------------------------------------------------------------
(* C16 *)

Lowest(S) == CHOOSE k \in S : \A j \in S : k <= j

\* the leg at the lowest position of S, or the leg at position other when S
\* is empty
FirstAt(legs, S, other) == IF S = {} THEN legs[other] ELSE legs[Lowest(S)]

DepCodeIs(leg, code) == leg.t = "object" /\ OptGet(DepOf(leg), "id") = code
ArrCodeIs(leg, code) == leg.t = "object" /\ OptGet(ArrOf(leg), "id") = code

\* the name of the leg's departure airport contains the code
DepNameHas(leg, code) ==
  /\ leg.t = "object"
  /\ LET name == OptGet(DepOf(leg), "name")
     IN name.t = "string" /\ Includes(name.v, code.v)

\* the itineraries of a successful response of server.js that went through
\* the round-trip branch: 1-based positions in flights
RoundTripRecords(r) ==
  {i \in 1..Len(Flights(r)) : ~FirstLegRecord(r, i)}

\* C16 (as claimed): the outbound leg of an itinerary processed as round-trip
\* is the first leg whose departure airport code equals the origin, and the
\* first leg of the list when there is none.
C16_OutboundByCode ==
  \A r \in Reqs :
    Answered(r) =>
      \A i \in RoundTripRecords(r) :
        LET legs == LegsOf(Offered(r)[i])
            byCode == {k \in 1..Len(legs) : DepCodeIs(legs[k], Origin(r))}
        IN Get(Flights(r)[i], "outbound") =
             Details(FirstAt(legs, byCode, 1), Origin(r), Destination(r))

\* C16 (amended): the outbound leg of an itinerary processed as round-trip is
\* the first leg whose departure airport code equals the origin or whose
\* departure airport name contains the origin, and the first leg of the list
\* when there is none.
C16_Outbound ==
  \A r \in Reqs :
    Answered(r) =>
      \A i \in RoundTripRecords(r) :
        LET legs == LegsOf(Offered(r)[i])
            hits == {k \in 1..Len(legs) :
                       \/ DepCodeIs(legs[k], Origin(r))
                       \/ DepNameHas(legs[k], Origin(r))}
        IN Get(Flights(r)[i], "outbound") =
             Details(FirstAt(legs, hits, 1), Origin(r), Destination(r))

\* a round-trip itinerary whose first leg leaves from an airport that only
\* names the origin, ahead of the leg that leaves from the origin
C16_Witness ==
  \E r \in Reqs :
    /\ Answered(r)
    /\ \E i \in RoundTripRecords(r) :
         /\ LegsOf(Offered(r)[i]) = <<legVia, legOut>>
         /\ Get(Get(Flights(r)[i], "outbound"), "airline") = Lit("Vistara")

---------------------------------------------------------------------------
(* C17 *)

\* C17 (as claimed): the return leg of an itinerary processed as round-trip
\* is the first leg after the first one whose departure airport code equals
\* the destination or whose arrival airport code equals the origin, and the
\* last leg of the list when there is none.
C17_ReturnByCode ==
  \A r \in Reqs :
    Answered(r) =>
      \A i \in RoundTripRecords(r) :
        LET legs == LegsOf(Offered(r)[i])
            byCode == {k \in 2..Len(legs) :
                         \/ DepCodeIs(legs[k], Destination(r))
                         \/ ArrCodeIs(legs[k], Origin(r))}
        IN Get(Flights(r)[i], "return") =
             Details(FirstAt(legs, byCode, Len(legs)), Destination(r), Origin(r))

\* C17 (amended): the return leg of an itinerary processed as round-trip is
\* the first leg after the first one whose departure airport code equals the
\* destination, whose arrival airport code equals the origin, or whose
\* departure airport name contains the destination, and the last leg of the
\* list when there is none; the first leg of the list is never the return
\* leg, whatever it matches.
C17_Return ==
  \A r \in Reqs :
    Answered(r) =>
      \A i \in RoundTripRecords(r) :
        LET legs == LegsOf(Offered(r)[i])
            hits == {k \in 2..Len(legs) :
                       \/ DepCodeIs(legs[k], Destination(r))
                       \/ ArrCodeIs(legs[k], Origin(r))
                       \/ DepNameHas(legs[k], Destination(r))}
        IN /\ Len(legs) >= 2
           /\ Get(Flights(r)[i], "return") =
                Details(FirstAt(legs, hits, Len(legs)), Destination(r), Origin(r))

\* a round-trip itinerary whose second leg leaves from an airport that only
\* names the destination was surfaced with that leg as the return
C17_Witness ==
  \E r \in Reqs :
    /\ Answered(r)
    /\ \E i \in RoundTripRecords(r) :
         /\ LegsOf(Offered(r)[i]) = <<legOut, legNear, legBare>>
         /\ Get(Get(Flights(r)[i], "return"), "airline") = Lit("IndiGo")

---------------------------------------------------------------------------
(* C18 *)

\* what names a record: its tag and its price
Summary(rec) == <<Get(rec, "type"), Get(rec, "price")>>

\* the summaries of the records made of a list of itineraries, in its order
Tagged(l, type) ==
  [i \in 1..Len(l) |-> <<Lit(type), Default(Get(l[i], "price"), Lit("N/A"))>>]

HasFirstLeg(it) == HasLeg(it) /\ ~IsNullish(LegsOf(it)[1])

SuccessEnvelope(r) ==
  Responded(r) /\ reply[r] # None /\ reply[r].ok /\ Succeeded(r)

\* C18 (as claimed): in every success envelope total_results is the length of
\* flights, and flights holds one record per itinerary of best_flights, tagged
\* 'best', then one per itinerary among the first five of other_flights,
\* tagged 'other', in the provider's order.
C18_OneRecordPerItinerary ==
  \A r \in Reqs :
    SuccessEnvelope(r) =>
      /\ Get(Answer(r), "total_results") = Num(Len(Flights(r)))
      /\ [i \in 1..Len(Flights(r)) |-> Summary(Flights(r)[i])] =
           Tagged(BestOf(r), "best") \o Tagged(FirstFive(OtherOf(r)), "other")

\* C18 (amended): in every success envelope total_results is the length of
\* flights, and flights holds one record per itinerary of best_flights that
\* has a first leg, tagged 'best', then one per itinerary among the first five
\* of other_flights that has a first leg, tagged 'other', in the provider's
\* order; an itinerary whose list of legs is missing or empty gives no record.
C18_Records ==
  \A r \in Reqs :
    SuccessEnvelope(r) =>
      /\ Get(Answer(r), "total_results") = Num(Len(Flights(r)))
      /\ [i \in 1..Len(Flights(r)) |-> Summary(Flights(r)[i])] =
           Tagged(SelectSeq(BestOf(r), HasFirstLeg), "best")
             \o Tagged(SelectSeq(FirstFive(OtherOf(r)), HasFirstLeg), "other")

\* a reply of three best itineraries, the second without legs, and two others
\* was answered with four records
C18_Witness ==
  \E r \in Reqs :
    /\ SuccessEnvelope(r)
    /\ Len(BestOf(r)) = 3 /\ ~HasLeg(BestOf(r)[2]) /\ Len(OtherOf(r)) = 2
    /\ Get(Answer(r), "total_results") = Num(4)
    /\ Summary(Flights(r)[2]) = <<Lit("best"), Num(200)>>
    /\ IsType(Flights(r)[3], "other")

---------------------------------------------------------------------------
(* C19 *)

InFlight(r) == pc[r] # "idle"

\* a response was sent for r once if r is answered, and not at all before
SentOnce(r) ==
  /\ sent[r] <= 1
  /\ Responded(r) <=> sent[r] = 1
  /\ Responded(r) <=> resp[r] # None

\* C19: every POST /execute-tool request eventually receives exactly one
\* response, given that the call to the provider settles: a request in flight
\* leads to an answered request, whatever path it takes, and no request is
\* answered twice or counted answered without a response.
C19_ExactlyOneResponse ==
  /\ [](\A r \in Reqs : SentOnce(r))
  /\ \A r \in Reqs : InFlight(r) ~> Responded(r)

\* two requests in flight together were answered once each: one after the
\* provider's call failed, one after an exception inside the transform
C19_Witness ==
  \E r, s \in Reqs :
    /\ Responded(r) /\ sent[r] = 1 /\ reply[r] # None /\ ~reply[r].ok
    /\ Responded(s) /\ sent[s] = 1 /\ reply[s] # None /\ reply[s].ok
    /\ reply[s].data = Null /\ Failed(s)

---------------------------------------------------------------------------
(* C20 *)

NoTool(r) == Tool(r) \in {Undef, Null, EmptyStr}
NoParameters(r) == Parameters(r) \in {Undef, Null}
OtherTool(r) == Tool(r) # Lit("search_flights")

\* the checks a request fails, numbered in the order claimed: 1 tool,
\* 2 parameters, 3 tool's name, 4 required fields, 5 credential
FailedChecks(r) ==
  {n \in 1..5 :
     \/ n = 1 /\ NoTool(r)
     \/ n = 2 /\ NoParameters(r)
     \/ n = 3 /\ OtherTool(r)
     \/ n = 4 /\ LacksRequired(r)
     \/ n = 5 /\ KeyMissing}

\* the status and the error each check answers with
CheckAnswer(r, n) ==
  CASE n = 1 -> <<400, Str(<<"Missing \"", "tool", "\" parameter">>)>>
    [] n = 2 -> <<400, Str(<<"Missing \"", "parameters", "\" parameter">>)>>
    [] n = 3 -> <<400, Str(<<"Unknown tool: ">> \o Tool(r).v)>>
    [] n = 4 -> <<200, Lit("Missing required parameters: origin, destination, or departure_date")>>
    [] n = 5 -> <<200, Lit("SERP_API_KEY not configured")>>

\* C20: the checks of server.js run in a fixed order (tool, parameters,
\* tool's name, required search fields, credential, then the call to the
\* provider) and the first that fails decides the response: a request that
\* fails several is answered by the earliest alone, searchFlights is not
\* entered when one of the first three fails, and the provider is not called
\* after any of them; a request that passes them all, with a return_date that
\* is absent, null or a string, is sent to the provider once.
C20_CheckOrder ==
  \A r \in Reqs :
    (impl = "server" /\ InFlight(r)) =>
      IF FailedChecks(r) # {}
      THEN LET first == Lowest(FailedChecks(r))
           IN /\ calls[r] = 0 /\ query[r] = None /\ pc[r] # "awaitAxios"
              /\ first <= 3 => (~invoked[r] /\ Responded(r))
              /\ first >= 4 => invoked[r]
              /\ Responded(r) =>
                   /\ Failed(r)
                   /\ <<Status(r), Get(Answer(r), "error")>> = CheckAnswer(r, first)
      ELSE ReturnDate(r).t \in {"undefined", "null", "string"} =>
             calls[r] = 1 /\ query[r] # None

\* a request for an unknown tool, without parameters, to a server without a
\* key was answered for its parameters
C20_Witness ==
  \E r \in Reqs :
    /\ impl = "server" /\ Responded(r) /\ KeyMissing
    /\ FailedChecks(r) = {2, 3, 4, 5}
    /\ Get(Answer(r), "error") = CheckAnswer(r, 2)[2]

---------------------------------------------------------------------------
(* C21 *)

IsObject(x) == x.t = "object"

\* C21: every flight record of a success response of server.js has an
\* outbound leg object and an is_round_trip flag equal to the request's trip
\* classification (true for round-trip, false for one-way), and the record
\* has a return leg object if and only if its is_round_trip flag is true.
C21_RecordShape ==
  \A r \in Reqs :
    Answered(r) =>
      \A i \in 1..Len(Flights(r)) :
        LET rec == Flights(r)[i]
        IN /\ Has(rec, "outbound") /\ IsObject(Get(rec, "outbound"))
           /\ Has(rec, "is_round_trip")
           /\ Get(rec, "is_round_trip") = Bool(NamesReturn(r))
           /\ (Has(rec, "return") /\ IsObject(Get(rec, "return")))
                <=> Get(rec, "is_round_trip") = Bool(TRUE)

=============================================================================
